---- MODULE Spec2Model ----
(***************************************************************************)
(* download_dataset.py: fetch autocodebench.jsonl through hf_hub_download   *)
(* and place it at <output_dir>/autocodebench.jsonl.                        *)
(*                                                                         *)
(* A path string is modelled by the sequence Python's str.split("/")       *)
(* yields for it: "ds" is <<"ds">>, "ds/" is <<"ds","">>, "/w/ds" is        *)
(* <<"","w","ds">>, "" is <<"">> and "/" is <<"","">>.  The encoding is a  *)
(* bijection between strings and non-empty sequences of slash-free         *)
(* components, so os.path.join, normpath and abspath are modelled on the   *)
(* text of the path, as posixpath computes them.                           *)
(*                                                                         *)
(* The filesystem has directories and regular files, no symbolic links;    *)
(* the kernel therefore resolves a path to abspath of it.                  *)
(***************************************************************************)
EXTENDS Integers, Sequences, FiniteSets, TLC

\* Number of invocations of the script against the same filesystem.
MaxRuns == 2

----------------------------------------------------------------------------
(* Strings of the program and of its environment *)

FILENAME == <<"autocodebench.jsonl">>
UsageMsg == "Usage: download_dataset.py <output_dir>"
\* What the interpreter writes for an exception that reaches the top level.
Traceback == "Traceback (most recent call last): ..."
Prog == <<"download_dataset.py">>

\* os.getcwd() of the process, "/w".
Cwd == <<"", "w">>
Root == <<"", "">>

----------------------------------------------------------------------------
(* posixpath *)

Last(s) == s[Len(s)]
Front(s) == SubSeq(s, 1, Len(s) - 1)

\* path.startswith("/")
isabs(p) == Len(p) >= 2 /\ p[1] = ""

\* posixpath.join(a, b)
join(a, b) ==
    IF isabs(b) THEN b
    ELSE IF Last(a) = "" THEN Front(a) \o b
    ELSE a \o b

\* The loop of posixpath.normpath over the split components.
RECURSIVE NormComps(_, _, _)
NormComps(comps, new, initial) ==
    IF comps = <<>> THEN new
    ELSE LET comp == Head(comps) IN
         IF comp \in {"", "."} THEN NormComps(Tail(comps), new, initial)
         ELSE IF \/ comp # ".."
                 \/ (initial = 0 /\ new = <<>>)
                 \/ (new # <<>> /\ Last(new) = "..")
              THEN NormComps(Tail(comps), Append(new, comp), initial)
         ELSE IF new # <<>>
              THEN NormComps(Tail(comps), Front(new), initial)
         ELSE NormComps(Tail(comps), new, initial)

\* Number of leading slashes posixpath.normpath keeps: 0, 1 or (exactly two) 2.
InitialSlashes(p) ==
    IF ~isabs(p) THEN 0
    ELSE IF Len(p) >= 3 /\ p[2] = "" /\ ~(Len(p) >= 4 /\ p[3] = "") THEN 2
    ELSE 1

\* posixpath.normpath(p)
normpath(p) ==
    IF p = <<"">> THEN <<".">>
    ELSE LET initial == InitialSlashes(p)
             comps == NormComps(p, <<>>, initial)
         IN  IF initial = 0 THEN (IF comps = <<>> THEN <<".">> ELSE comps)
             ELSE IF comps = <<>> THEN [i \in 1..(initial + 1) |-> ""]
             ELSE [i \in 1..initial |-> ""] \o comps

\* posixpath.abspath(p)
abspath(p) == normpath(IF isabs(p) THEN p ELSE join(Cwd, p))

\* The directories on the way to the normalized absolute path p, p included.
Ancestors(p) == {Root} \cup {SubSeq(p, 1, k) : k \in 2..Len(p)}

----------------------------------------------------------------------------
(* The environment: command lines, the filesystem, the client's outcomes *)

\* Values of sys.argv[1]: "ds", "/w/ds", "ds/", "./ds" (one directory in four
\* forms), "a/b" (nested, no component exists), "" (empty string), "f" (an
\* existing regular file), "/ro/x" (below a directory that is not writable).
OutDirArgs ==
    { <<"ds">>, <<"", "w", "ds">>, <<"ds", "">>, <<".", "ds">>,
      <<"a", "b">>, <<"">>, <<"f">>, <<"", "ro", "x">> }

\* sys.argv: the program name alone, or followed by output_dir.
Argvs == {<<Prog>>} \cup {<<Prog, d>> : d \in OutDirArgs}

ReadOnlyDirs == {<<"", "ro">>}
InitDirs == {Root, Cwd, <<"", "ro">>}
InitFiles == (<<"", "w", "f">> :> "other")

\* Contents of the remote artifact (it may change between two runs).
Contents == {"v1", "v2"}
\* What a copy interrupted after opening its destination leaves there.
Truncated == "truncated"

NoPath == <<>>
NoExc == [type |-> "none", msg |-> ""]
ImportErr == [type |-> "ModuleNotFoundError", msg |-> "No module named 'huggingface_hub'"]
ClientErrors ==
    { [type |-> "RepositoryNotFoundError", msg |-> "404 Client Error"],
      [type |-> "ConnectionError", msg |-> "Connection refused"] }
CopyErrors ==
    { [type |-> "PermissionError", msg |-> "[Errno 13] Permission denied"] }
DiskFull == [type |-> "OSError", msg |-> "[Errno 28] No space left on device"]

\* str(e)
str(e) == e.msg

\* The path p as a path relative to the working directory, when it lies below it.
RelForm(p) ==
    LET a == abspath(p) IN
    IF Len(a) > Len(Cwd) /\ SubSeq(a, 1, Len(Cwd)) = Cwd
    THEN SubSeq(a, Len(Cwd) + 1, Len(a))
    ELSE p

\* Paths hf_hub_download(local_dir = d) may return: the file directly in d,
\* or in a nested layout below d, each spelled as joined to d, as an absolute
\* path, or relative to the working directory.
ClientPaths(d) ==
    LET direct == join(d, FILENAME)
        nested == join(d, <<"snapshots", "abc">> \o FILENAME)
    IN  { direct, abspath(direct), RelForm(direct),
          nested, abspath(nested), RelForm(nested) }

Parent(p) == IF Len(p) > 2 THEN Front(p) ELSE Root

\* The file map fs with content c written at the absolute path p.
WriteFile(fs, p, c) == [q \in (DOMAIN fs) \cup {p} |-> IF q = p THEN c ELSE fs[q]]

----------------------------------------------------------------------------
VARIABLES
    run,          \* number of invocations started
    pc,           \* position of the running invocation in main()
    argv,         \* sys.argv
    out_dir, out_path, path, exc,   \* locals of main()
    stdout, stderr, exitCode,       \* what the process wrote; its exit status
    dirs, files,                    \* the filesystem: directories, file contents
    clientCalls,  \* calls of hf_hub_download in this run
    copies,       \* calls of shutil.copy2 in this run
    produced,     \* content the client produced in this run
    dirAtCall,    \* whether out_dir existed when the client was called
    files0, dirs0, \* the filesystem when this run started
    prev          \* directory of the run before this one, if it exited with status 0

vars == <<run, pc, argv, out_dir, out_path, path, exc, stdout, stderr, exitCode,
          dirs, files, clientCalls, copies, produced, dirAtCall, files0, dirs0, prev>>

locals == <<out_dir, out_path, path, exc>>
output == <<stdout, stderr, exitCode>>
fsys == <<dirs, files>>
history == <<clientCalls, copies, produced, dirAtCall, files0, dirs0, prev>>

\* exitCode while the process has not exited.
Running == -1

Init ==
    /\ run = 0
    /\ pc = "idle"
    /\ argv = <<Prog>>
    /\ out_dir = NoPath /\ out_path = NoPath /\ path = NoPath /\ exc = NoExc
    /\ stdout = <<>> /\ stderr = <<>> /\ exitCode = Running
    /\ dirs = InitDirs /\ files = InitFiles
    /\ clientCalls = 0 /\ copies = 0 /\ produced = "none" /\ dirAtCall = "n/a"
    /\ files0 = InitFiles /\ dirs0 = InitDirs
    /\ prev = NoPath

\* The shell starts the script: a fresh process on the filesystem as it is.
StartRun ==
    /\ pc \in {"idle", "done"}
    /\ run < MaxRuns
    /\ run' = run + 1
    /\ \E a \in Argvs : argv' = a
    /\ pc' = "argcheck"
    /\ out_dir' = NoPath /\ out_path' = NoPath /\ path' = NoPath /\ exc' = NoExc
    /\ stdout' = <<>> /\ stderr' = <<>> /\ exitCode' = Running
    /\ clientCalls' = 0 /\ copies' = 0 /\ produced' = "none" /\ dirAtCall' = "n/a"
    /\ files0' = files /\ dirs0' = dirs
    /\ prev' = IF pc = "done" /\ exitCode = 0 THEN abspath(out_dir) ELSE NoPath
    /\ UNCHANGED fsys

\* len(sys.argv) < 2
MissingArg(a) == Len(a) < 2

\* Mutant of UsageExit: the usage error leaves with status 2.
UsageExitStatus2 ==
    /\ pc = "argcheck"
    /\ MissingArg(argv)
    /\ stderr' = Append(stderr, UsageMsg)
    /\ exitCode' = 2
    /\ pc' = "done"
    /\ UNCHANGED <<run, argv, locals, stdout, fsys, history>>

\* if len(sys.argv) < 2: print(usage, file=sys.stderr); sys.exit(1)
UsageExit ==
    /\ pc = "argcheck"
    /\ MissingArg(argv)
    /\ stderr' = Append(stderr, UsageMsg)
    /\ exitCode' = 1
    /\ pc' = "done"
    /\ UNCHANGED <<run, argv, locals, stdout, fsys, history>>

\* out_dir = sys.argv[1]
ReadArg ==
    /\ pc = "argcheck"
    /\ ~MissingArg(argv)
    /\ out_dir' = argv[2]
    /\ pc' = "makedirs"
    /\ UNCHANGED <<run, argv, out_path, path, exc, output, fsys, history>>

\* os.path.isdir(name)
isdir(name) == name # <<"">> /\ abspath(name) \in dirs

\* The exist_ok argument the script passes to os.makedirs.
ExistOk == TRUE

\* Whether the mkdir calls of os.makedirs(name) raise OSError: the directory
\* exists, mkdir("") finds no such file, a regular file is on the way (or is
\* the path itself), or a missing directory would have to be made in a
\* directory that is not writable.
MkdirRaises(name) ==
    LET target == abspath(name) IN
    \/ isdir(name)
    \/ name = <<"">>
    \/ \E a \in Ancestors(target) : a \in DOMAIN files
    \/ \E a \in Ancestors(target) \ dirs : Parent(a) \in ReadOnlyDirs

\* Whether os.makedirs(name, exist_ok=ExistOk) raises: the OSError of mkdir
\* is swallowed only when exist_ok is set and the path is a directory.
MakedirsRaises(name) == MkdirRaises(name) /\ (~ExistOk \/ ~isdir(name))

\* Mutant of MakedirsOk: the directory is not made.
MakedirsSkipped ==
    /\ pc = "makedirs"
    /\ ~MakedirsRaises(out_dir)
    /\ pc' = "join"
    /\ UNCHANGED <<run, argv, locals, output, fsys, history>>

\* os.makedirs(out_dir, exist_ok=True), the directory made with its parents.
MakedirsOk ==
    /\ pc = "makedirs"
    /\ ~MakedirsRaises(out_dir)
    /\ dirs' = dirs \cup Ancestors(abspath(out_dir))
    /\ pc' = "join"
    /\ UNCHANGED <<run, argv, locals, output, files, history>>

\* os.makedirs raises outside the try block: the exception reaches the top
\* level, the interpreter prints the traceback and exits with status 1.
MakedirsUncaught ==
    /\ pc = "makedirs"
    /\ MakedirsRaises(out_dir)
    /\ stderr' = Append(stderr, Traceback)
    /\ exitCode' = 1
    /\ pc' = "done"
    /\ UNCHANGED <<run, argv, locals, stdout, fsys, history>>

\* out_path = os.path.join(out_dir, "autocodebench.jsonl")
JoinOutPath ==
    /\ pc = "join"
    /\ out_path' = join(out_dir, FILENAME)
    /\ pc' = "import"
    /\ UNCHANGED <<run, argv, out_dir, path, exc, output, fsys, history>>

\* from huggingface_hub import hf_hub_download, inside the try block
ImportOk ==
    /\ pc = "import"
    /\ pc' = "download"
    /\ UNCHANGED <<run, argv, locals, output, fsys, history>>

ImportRaises ==
    /\ pc = "import"
    /\ exc' = ImportErr
    /\ pc' = "except"
    /\ UNCHANGED <<run, argv, out_dir, out_path, path, output, fsys, history>>

\* path = hf_hub_download(..., local_dir=out_dir, ...) returns: the client has
\* written the artifact at the path it returns.
DownloadOk ==
    /\ pc = "download"
    /\ \E p \in ClientPaths(out_dir), c \in Contents :
          /\ files' = WriteFile(files, abspath(p), c)
          /\ dirs' = dirs \cup Ancestors(Parent(abspath(p)))
          /\ path' = p
          /\ produced' = c
    /\ clientCalls' = clientCalls + 1
    /\ dirAtCall' = IF isdir(out_dir) THEN "yes" ELSE "no"
    /\ pc' = "compare"
    /\ UNCHANGED <<run, argv, out_dir, out_path, exc, output, copies, files0, dirs0, prev>>

\* Mutant of DownloadRaises: a failed transfer is tried once more.
DownloadRaisesRetry ==
    /\ pc = "download"
    /\ \E e \in ClientErrors : exc' = e
    /\ clientCalls' = clientCalls + 1
    /\ dirAtCall' = IF isdir(out_dir) THEN "yes" ELSE "no"
    /\ pc' = IF clientCalls = 0 THEN "download" ELSE "except"
    /\ UNCHANGED <<run, argv, out_dir, out_path, path, output, fsys, copies, produced, files0, dirs0, prev>>

\* hf_hub_download raises; it may leave an incomplete download below out_dir.
DownloadRaises ==
    /\ pc = "download"
    /\ \E e \in ClientErrors : exc' = e
    /\ \E partial \in BOOLEAN :
          IF partial
          THEN LET tmp == abspath(join(out_dir, <<".cache", "autocodebench.jsonl.incomplete">>))
               IN  /\ files' = WriteFile(files, tmp, Truncated)
                   /\ dirs' = dirs \cup Ancestors(Parent(tmp))
          ELSE UNCHANGED fsys
    /\ clientCalls' = clientCalls + 1
    /\ dirAtCall' = IF isdir(out_dir) THEN "yes" ELSE "no"
    /\ pc' = "except"
    /\ UNCHANGED <<run, argv, out_dir, out_path, path, output, copies, produced, files0, dirs0, prev>>

\* Mutant of NeedsCopy: the client's file is taken to be in place.
NeedsCopyNever(p, q) == FALSE

\* Mutant of NeedsCopy: the paths are compared as written.
NeedsCopyTextual(p, q) == p # q

\* os.path.abspath(path) != os.path.abspath(out_path)
NeedsCopy(p, q) == abspath(p) # abspath(q)

\* if os.path.abspath(path) != os.path.abspath(out_path): ...
Compare ==
    /\ pc = "compare"
    /\ pc' = IF NeedsCopy(path, out_path) THEN "copy" ELSE "print"
    /\ UNCHANGED <<run, argv, locals, output, fsys, history>>

\* os.path.samefile(p, q), as shutil.copyfile asks it before it copies.
samefile(p, q) == abspath(p) = abspath(q)

\* Mutant of CopyOk: a canonical file that is already there is kept.
CopyOkKeepExisting ==
    /\ pc = "copy"
    /\ abspath(path) \in DOMAIN files
    /\ ~samefile(path, out_path)
    /\ files' = IF abspath(out_path) \in DOMAIN files THEN files
                ELSE WriteFile(files, abspath(out_path), files[abspath(path)])
    /\ copies' = copies + 1
    /\ pc' = "print"
    /\ UNCHANGED <<run, argv, locals, output, dirs, clientCalls, produced, dirAtCall, files0, dirs0, prev>>

\* shutil.copy2(path, out_path) returns: the destination holds the source's
\* content, whether or not the destination existed.
CopyOk ==
    /\ pc = "copy"
    /\ abspath(path) \in DOMAIN files
    /\ ~samefile(path, out_path)
    /\ files' = WriteFile(files, abspath(out_path), files[abspath(path)])
    /\ copies' = copies + 1
    /\ pc' = "print"
    /\ UNCHANGED <<run, argv, locals, output, dirs, clientCalls, produced, dirAtCall, files0, dirs0, prev>>

\* shutil.copy2 raises before it opens the destination (the source is
\* missing or is the destination itself, or permission is denied).
CopyRaises ==
    /\ pc = "copy"
    /\ \E e \in CopyErrors : exc' = e
    /\ copies' = copies + 1
    /\ pc' = "except"
    /\ UNCHANGED <<run, argv, out_dir, out_path, path, output, fsys, clientCalls, produced, dirAtCall, files0, dirs0, prev>>

\* shutil.copy2 raises while writing: the destination is left incomplete.
CopyRaisesMidway ==
    /\ pc = "copy"
    /\ abspath(path) \in DOMAIN files
    /\ ~samefile(path, out_path)
    /\ exc' = DiskFull
    /\ files' = WriteFile(files, abspath(out_path), Truncated)
    /\ copies' = copies + 1
    /\ pc' = "except"
    /\ UNCHANGED <<run, argv, out_dir, out_path, path, output, dirs, clientCalls, produced, dirAtCall, files0, dirs0, prev>>

\* Mutant of PrintPath: the path the client returned is printed.
PrintClientPath ==
    /\ pc = "print"
    /\ stdout' = Append(stdout, path)
    /\ exitCode' = 0
    /\ pc' = "done"
    /\ UNCHANGED <<run, argv, locals, stderr, fsys, history>>

\* print(out_path); main() returns and the process exits with status 0.
PrintPath ==
    /\ pc = "print"
    /\ stdout' = Append(stdout, out_path)
    /\ exitCode' = 0
    /\ pc' = "done"
    /\ UNCHANGED <<run, argv, locals, stderr, fsys, history>>

\* Mutant of Except: the exception is swallowed and main() returns.
ExceptSwallowed ==
    /\ pc = "except"
    /\ exitCode' = 0
    /\ pc' = "done"
    /\ UNCHANGED <<run, argv, locals, stdout, stderr, fsys, history>>

\* Mutant of Except: the handler removes the canonical file before it exits.
ExceptWithCleanup ==
    /\ pc = "except"
    /\ stderr' = Append(stderr, str(exc))
    /\ exitCode' = 2
    /\ pc' = "done"
    /\ files' = [q \in (DOMAIN files) \ {abspath(out_path)} |-> files[q]]
    /\ UNCHANGED <<run, argv, locals, stdout, dirs, history>>

\* except Exception as e: print(str(e), file=sys.stderr); sys.exit(2)
Except ==
    /\ pc = "except"
    /\ stderr' = Append(stderr, str(exc))
    /\ exitCode' = 2
    /\ pc' = "done"
    /\ UNCHANGED <<run, argv, locals, stdout, fsys, history>>

\* One statement of the running invocation.
Step ==
    \/ UsageExit \/ ReadArg
    \/ MakedirsOk \/ MakedirsUncaught
    \/ JoinOutPath
    \/ ImportOk \/ ImportRaises
    \/ DownloadOk \/ DownloadRaises
    \/ Compare
    \/ CopyOk \/ CopyRaises \/ CopyRaisesMidway
    \/ PrintPath
    \/ Except

Next == StartRun \/ Step

Spec == Init /\ [][Next]_vars

\* The interpreter runs a started process to its end.
LiveSpec == Init /\ [][Next]_vars /\ WF_vars(Step)

----------------------------------------------------------------------------
(* Properties *)

\* The run was given an output_dir argument.
HasArg == pc # "idle" /\ Len(argv) >= 2
\* The run has exited.
Exited == pc = "done"
\* Where the kernel finds <output_dir>/autocodebench.jsonl.
CanonicalFile == abspath(argv[2]) \o FILENAME
\* The exception in flight was raised by the import or by the client.
ClientRaised == exc \in ClientErrors \cup {ImportErr}

\* C1: a run started with zero arguments never reaches the import or the
\* client, and when it has exited its status is 1, the usage message is the
\* one line on standard error, and standard output is empty.
C1_ZeroArgsUsage ==
    (pc # "idle" /\ Len(argv) = 1) =>
        /\ pc \in {"argcheck", "done"}
        /\ clientCalls = 0
        /\ Exited => (exitCode = 1 /\ stderr = <<UsageMsg>> /\ stdout = <<>>)

C1_Witness == Exited /\ Len(argv) = 1 /\ exitCode = 1 /\ run = 1

\* C2: the exit status is 1 exactly when the output_dir argument is missing,
\* 2 whenever the client call or the copy raised, and 0 only when the
\* canonical path has been printed.
C2_ExitCodeMapping ==
    Exited =>
        /\ (exitCode = 1 <=> Len(argv) < 2)
        /\ (exc # NoExc => exitCode = 2)
        /\ (exitCode = 0 => stdout = <<out_path>>)

\* C3: when the import or the client raises, nothing is written to standard
\* output, nothing is copied, the client is not called again, and the run
\* exits with status 2 and the error's message as the one line on standard error.
C3_ClientErrorExit2 ==
    ClientRaised =>
        /\ pc \in {"except", "done"}
        /\ stdout = <<>>
        /\ copies = 0
        /\ clientCalls <= 1
        /\ (exc = ImportErr => clientCalls = 0)
        /\ Exited => (exitCode = 2 /\ stderr = <<exc.msg>>)

C3_Witness == Exited /\ exc \in ClientErrors /\ clientCalls = 1 /\ exitCode = 2

\* C4: in a run that exited with status 0 the canonical file exists and holds
\* the content the client produced in that run, wherever the client put it.
C4_CanonicalHoldsProduced ==
    (Exited /\ exitCode = 0) =>
        /\ produced \in Contents
        /\ CanonicalFile \in DOMAIN files
        /\ files[CanonicalFile] = produced

\* The client put the file in a nested layout and the run copied it.
C4_Witness ==
    /\ Exited /\ exitCode = 0 /\ copies = 1
    /\ abspath(path) # CanonicalFile
    /\ CanonicalFile \in DOMAIN files0
    /\ files0[CanonicalFile] # produced

\* C5: the client is only ever called with out_dir in existence, and
\* os.makedirs does not raise when the directory existed at the start.
C5_DirBeforeClient ==
    /\ clientCalls > 0 => dirAtCall = "yes"
    /\ pc \in {"import", "download"} => abspath(argv[2]) \in dirs
    /\ (Exited /\ HasArg /\ stderr = <<Traceback>>) =>
            ~(argv[2] # <<"">> /\ abspath(argv[2]) \in dirs0)

\* A nested directory of which nothing existed was made before the call.
C5_Witness ==
    /\ clientCalls = 1 /\ dirAtCall = "yes"
    /\ argv[2] = <<"a", "b">>
    /\ <<"", "w", "a">> \notin dirs0

\* The argument as written, without the separator that may end it.
ArgStem == IF Last(argv[2]) = "" THEN Front(argv[2]) ELSE argv[2]

\* C6: standard output stays empty until the download and the copy are over;
\* a run that exited with status 0 wrote exactly one line, the argument as
\* written followed by the component autocodebench.jsonl, whatever path the
\* client returned.
C6_StdoutOneCanonicalLine ==
    /\ stdout # <<>> => (Exited /\ exitCode = 0 /\ clientCalls = 1)
    /\ (Exited /\ exitCode = 0) =>
            /\ Len(stdout) = 1
            /\ stdout[1] = ArgStem \o FILENAME
            /\ isabs(stdout[1]) = isabs(argv[2])
            /\ NeedsCopy(path, out_path) => copies = 1

\* An absolute argument, a client that returned the path in another form.
C6_Witness ==
    /\ Exited /\ exitCode = 0
    /\ isabs(argv[2])
    /\ path # stdout[1]
    /\ ~isabs(path)

\* The run follows a successful run against the same directory.
SecondOfPair ==
    /\ pc # "idle" /\ run >= 2
    /\ Len(argv) = 2
    /\ prev = abspath(argv[2])

\* C7: when a run follows a successful run against the same output_dir,
\* os.makedirs does not raise; once the client has returned, the run fails
\* only if the copy is denied or runs out of space, and otherwise exits with
\* status 0 and the canonical file holding what the client produced in this
\* run; and the files the run added are the canonical file and the client's.
C7_Idempotent ==
    SecondOfPair =>
        /\ pc # "makedirs" => stderr # <<Traceback>>
        /\ pc = "makedirs" => ~MakedirsRaises(out_dir)
        /\ (Exited /\ produced \in Contents) =>
              \/ /\ exitCode = 0
                 /\ CanonicalFile \in DOMAIN files
                 /\ files[CanonicalFile] = produced
              \/ /\ exitCode = 2
                 /\ exc \in CopyErrors \cup {DiskFull}
        /\ (Exited /\ exitCode = 0) =>
              (DOMAIN files) \ (DOMAIN files0) \subseteq {CanonicalFile, abspath(path)}

\* The second run copied other content over the first run's canonical file.
C7_Witness ==
    /\ SecondOfPair /\ Exited /\ exitCode = 0
    /\ copies = 1
    /\ CanonicalFile \in DOMAIN files0
    /\ files0[CanonicalFile] \in Contents \ {produced}

\* C8: a run calls the client at most once, and every started run exits,
\* with status 0, 1 or 2.
C8_OneCallThenExit ==
    /\ [](clientCalls <= 1)
    /\ [](pc \notin {"idle", "done"} => <>(pc = "done" /\ exitCode \in {0, 1, 2}))

\* A failed transfer: one call, no second one, exit.
C8_Witness == Exited /\ clientCalls = 1 /\ exc \in ClientErrors /\ exitCode = 2

\* Past the comparison of the two paths.
Compared == pc \in {"copy", "print"} \/ (Exited /\ path # NoPath)

\* C9: after the client returned, copy2 is called if and only if the client's
\* file and the canonical file are different files, and exactly once; when
\* they are the same file, however the client spelled the path, the canonical
\* file holds what the client wrote.
C9_CopyIffDifferent ==
    /\ copies <= 1
    /\ copies = 1 => abspath(path) # CanonicalFile
    /\ pc = "copy" => abspath(path) # CanonicalFile
    /\ (Compared /\ pc # "copy" /\ abspath(path) # CanonicalFile) => copies = 1
    /\ (Compared /\ abspath(path) = CanonicalFile) =>
            /\ copies = 0
            /\ pc # "copy"
            /\ exc = NoExc
            /\ files[CanonicalFile] = produced

\* The client returned the canonical file in another form than the argument's.
C9_Witness ==
    /\ Exited /\ exitCode = 0 /\ copies = 0
    /\ path # out_path
    /\ abspath(path) = CanonicalFile

\* C10: a run never removes a file or a directory: what existed when it
\* started exists at every step, the file the client returned stays where
\* the client put it, and a run that exits with status 2 leaves out_dir made.
C10_NoRollback ==
    /\ (DOMAIN files0) \subseteq (DOMAIN files)
    /\ dirs0 \subseteq dirs
    /\ path # NoPath => abspath(path) \in DOMAIN files
    /\ (Exited /\ HasArg /\ exitCode = 2) => isdir(argv[2])

\* A failed copy over a canonical file of an earlier run.
C10_Witness ==
    /\ Exited /\ exitCode = 2 /\ copies = 1
    /\ CanonicalFile \in DOMAIN files0
    /\ abspath(path) \in DOMAIN files

====
